---- MODULE Spec2Model ----
(***************************************************************************)
(* Akima spline interpolator (SplineInterpolatorAkima, util.js).           *)
(*                                                                         *)
(* Numbers are JavaScript numbers without rounding: a value is a pair      *)
(* <<n, d>>, the reduced fraction n/d when d > 0, and for d = 0 one of     *)
(* the three non-finite numbers +Infinity <<1,0>>, -Infinity <<-1,0>> and  *)
(* NaN <<0,0>>.  An array slot that was never assigned is <<0,-1>>         *)
(* (undefined), which arithmetic turns into NaN as ToNumber does.          *)
(* Zero is unsigned: every divisor of the program is a difference of       *)
(* knots, a product of such differences or a sum of absolute values, and   *)
(* none of these is -0.                                                    *)
(*                                                                         *)
(* Arrays are functions on 0..len-1, so indices are the source's.  Arrays  *)
(* live in a heap and are named by references, so that sharing of storage  *)
(* (slice versus no slice) is visible.                                     *)
(*                                                                         *)
(* An operator that uses an argument more than once binds it first, as     *)
(* CHOOSE r \in {body : a \in {argument}} : TRUE, so that the argument is  *)
(* evaluated once however deep the expression it comes from.               *)
(***************************************************************************)
EXTENDS Integers, FiniteSets, Sequences, TLC

VARIABLES
  heap,           \* the arrays, by reference (1, 2, ...)
  xVals, yVals,   \* the caller's arguments: references, 0 for null
  pc,             \* "start", then "fitted" or "failed"
  error,          \* the exception createInterpolator threw, or "none"
  xValsCopy,      \* the fitted function's knots (a reference)
  segmentCoeffs,  \* the fitted function's table: an array of references
  steps,          \* the accesses the derivative estimator made, in order
  query, result,  \* the last call of the fitted function
  lastOp,         \* the last operation that ran
  mutations       \* how often the caller changed its arrays after the fit

vars == <<heap, xVals, yVals, pc, error, xValsCopy, segmentCoeffs,
          steps, query, result, lastOp, mutations>>

----------------------------------------------------------------------------
(* Numbers *)

NaN == <<0, 0>>
PInf == <<1, 0>>
NInf == <<-1, 0>>
Undefined == <<0, -1>>

RECURSIVE GCD(_, _)
GCD(a0, b0) ==
  CHOOSE r \in {IF b = 0 THEN a ELSE GCD(b, a % b) : a \in {a0}, b \in {b0}} : TRUE

IAbs(n) == IF n < 0 THEN -n ELSE n
Sgn(n) == IF n < 0 THEN -1 ELSE IF n > 0 THEN 1 ELSE 0

\* The number n/d for d >= 0 (d = 0: the non-finite number of n's sign).
Norm(n0, d0) ==
  CHOOSE r \in {IF d = 0 THEN <<Sgn(n), 0>>
                ELSE CHOOSE q \in {<<n \div g, d \div g>> : g \in {GCD(IAbs(n), d)}} : TRUE
                : n \in {n0}, d \in {d0}} : TRUE

Num(k) == <<k, 1>>
\* ToNumber: undefined becomes NaN.
ToNum(a0) == CHOOSE r \in {IF a[2] < 0 THEN <<0, 0>> ELSE a : a \in {a0}} : TRUE
IsNaN(a) == ToNum(a) = NaN
IsFinite(a) == a[2] > 0
IsInf(a) == a = PInf \/ a = NInf

Neg(a0) == CHOOSE r \in {<<-a[1], a[2]>> : a \in {ToNum(a0)}} : TRUE

Add(a0, b0) ==
  CHOOSE r \in
    {IF a = NaN \/ b = NaN THEN NaN
     ELSE IF IsInf(a) THEN (IF IsInf(b) /\ b # a THEN NaN ELSE a)
     ELSE IF IsInf(b) THEN b
     ELSE Norm(a[1] * b[2] + b[1] * a[2], a[2] * b[2])
     : a \in {ToNum(a0)}, b \in {ToNum(b0)}} : TRUE

Sub(a, b) == Add(a, Neg(b))

Mul(a0, b0) ==
  CHOOSE r \in
    {IF a = NaN \/ b = NaN THEN NaN
     ELSE IF IsInf(a) \/ IsInf(b)
          THEN <<Sgn(a[1]) * Sgn(b[1]), 0>>     \* Infinity * 0 is NaN
     ELSE Norm(a[1] * b[1], a[2] * b[2])
     : a \in {ToNum(a0)}, b \in {ToNum(b0)}} : TRUE

Div(a0, b0) ==
  CHOOSE r \in
    {IF a = NaN \/ b = NaN THEN NaN
     ELSE IF IsInf(a) THEN (IF IsInf(b) THEN NaN
                            ELSE IF b[1] < 0 THEN <<-a[1], 0>> ELSE a)
     ELSE IF IsInf(b) THEN Num(0)
     ELSE IF b[1] = 0 THEN <<Sgn(a[1]), 0>>     \* 0/0 is NaN, k/0 is +-Infinity
     ELSE Norm(a[1] * b[2] * Sgn(b[1]), a[2] * IAbs(b[1]))
     : a \in {ToNum(a0)}, b \in {ToNum(b0)}} : TRUE

Abs(a0) == CHOOSE r \in {<<IAbs(a[1]), a[2]>> : a \in {ToNum(a0)}} : TRUE

\* a < b; false when either is NaN.
Lt(a0, b0) ==
  \E a \in {ToNum(a0)}, b \in {ToNum(b0)} :
    IF a = NaN \/ b = NaN THEN FALSE
    ELSE IF IsInf(a) /\ IsInf(b) THEN a[1] < b[1]
    ELSE IF IsInf(a) THEN a[1] < 0
    ELSE IF IsInf(b) THEN b[1] > 0
    ELSE a[1] * b[2] < b[1] * a[2]

Gt(a, b) == Lt(b, a)
\* a == b; false when either is NaN.
Eq(a0, b0) ==
  \E a \in {ToNum(a0)}, b \in {ToNum(b0)} : a # NaN /\ b # NaN /\ a = b
Le(a0, b0) == \E a \in {a0}, b \in {b0} : Lt(a, b) \/ Eq(a, b)
Ge(a, b) == Le(b, a)

\* Number.EPSILON is 2^-EpsilonExponent.
EpsilonExponent == 52

RECURSIVE ShiftRight(_, _)
ShiftRight(n0, k0) ==
  CHOOSE r \in {IF k = 0 \/ n = 0 THEN n ELSE ShiftRight(n \div 2, k - 1)
                : n \in {n0}, k \in {k0}} : TRUE

\* a < Number.EPSILON: for a finite a = n/d, n * 2^52 < d, that is
\* n <= floor((d - 1) / 2^52).
LtEpsilon(a0) ==
  \E a \in {ToNum(a0)} :
    IF a = NaN THEN FALSE
    ELSE IF IsInf(a) THEN a[1] < 0
    ELSE a[1] <= ShiftRight(a[2] - 1, EpsilonExponent)

----------------------------------------------------------------------------
(* Arrays *)

ALen(a) == Cardinality(DOMAIN a)
\* new Array(n): n slots, none assigned.
NewArray(n) == [i \in 0 .. n - 1 |-> Undefined]
\* a[i] = v; assigning at a.length grows the array.
Store(a0, i0, v0) ==
  CHOOSE r \in {[j \in (DOMAIN a) \cup {i} |-> IF j = i THEN v ELSE a[j]]
                : a \in {a0}, i \in {i0}, v \in {v0}} : TRUE
\* a[i]; outside the array it is undefined.
Load(a, i0) ==
  CHOOSE r \in {IF i \in DOMAIN a THEN a[i] ELSE Undefined : i \in {i0}} : TRUE

\* One array access or division of interpolate, as it happens.
Access(k, a, i, v) == [k |-> k, a |-> a, i |-> i, v |-> v]

----------------------------------------------------------------------------
(* util.js *)

INCREASING == 0
DECREASING == 1
\* The value of a parameter the caller left out.
DirUndefined == -1

binarySearchThrow == [threw |-> TRUE, ret |-> 0]

RECURSIVE binarySearchLoop(_, _, _, _)
binarySearchLoop(a, key, low0, high0) ==
  CHOOSE r \in
    {IF low <= high
     THEN CHOOSE q \in
            {IF Lt(a[mid], key) THEN binarySearchLoop(a, key, mid + 1, high)
             ELSE IF Gt(a[mid], key) THEN binarySearchLoop(a, key, low, mid - 1)
             ELSE IF Eq(a[mid], key) THEN [threw |-> FALSE, ret |-> mid]
             ELSE binarySearchThrow
             : mid \in {(low + high) \div 2}} : TRUE
     ELSE [threw |-> FALSE, ret |-> -(low + 1)]
     : low \in {low0}, high \in {high0}} : TRUE

binarySearch(a, key) == binarySearchLoop(a, key, 0, ALen(a) - 1)

\* The test of one loop round of checkOrder: val[index] is out of order.
OutOfOrder(dir, strict, cur, previous) ==
  IF dir = INCREASING
  THEN (IF strict THEN Le(cur, previous) ELSE Lt(cur, previous))
  ELSE (IF strict THEN Ge(cur, previous) ELSE Gt(cur, previous))

\* The index at which the loop of checkOrder ends; -1 when it throws
\* MathInternalError.
RECURSIVE checkOrderLoop(_, _, _, _, _)
checkOrderLoop(val, dir, strict, index0, previous0) ==
  CHOOSE r \in
    {IF index >= ALen(val) THEN index
     ELSE IF dir \notin {INCREASING, DECREASING} THEN -1
     ELSE IF OutOfOrder(dir, strict, val[index], previous) THEN index
     ELSE checkOrderLoop(val, dir, strict, index + 1, val[index])
     : index \in {index0}, previous \in {previous0}} : TRUE

\* exceptions.js exports no NonMonotonicSequenceException, so
\* new E.NonMonotonicSequenceException(...) is a TypeError.
checkOrder(val, dirArg, strict, abort) ==
  LET dir == IF dirArg = DirUndefined \/ dirArg = 0 THEN INCREASING ELSE dirArg
  IN CHOOSE r \in
       {IF index = -1 THEN [thrown |-> "MathInternalError", ret |-> FALSE]
        ELSE IF index = ALen(val) THEN [thrown |-> "none", ret |-> TRUE]
        ELSE IF abort THEN [thrown |-> "TypeError", ret |-> FALSE]
        ELSE [thrown |-> "none", ret |-> FALSE]
        : index \in {checkOrderLoop(val, dir, strict, 1, Load(val, 0))}} : TRUE

----------------------------------------------------------------------------
(* SplineInterpolatorAkima: fitting *)

MINIMUM_NUMBER_POINTS == 5

\* A copy of the array at r in fresh storage: a.slice(0).
slice(h, r) == [heap |-> Append(h, h[r]), ref |-> Len(h) + 1]
\* No copy: the same storage under a second name.
alias(h, r) == [heap |-> h, ref |-> r]

\* for (i = 0; i < differences.length; i++) differences[i] = ...
differencesOf(xvals, yvals) ==
  [i \in 0 .. ALen(xvals) - 2 |->
     Div(Sub(Load(yvals, i + 1), Load(yvals, i)),
         Sub(Load(xvals, i + 1), Load(xvals, i)))]

\* for (i = 1; i < weights.length; i++) weights[i] = ...; weights[0] stays
\* unassigned.
weightsOf(differences0) ==
  CHOOSE r \in
    {[i \in DOMAIN differences |->
        IF i >= 1 THEN Abs(Sub(differences[i], differences[i - 1]))
        ELSE Undefined]
     : differences \in {differences0}} : TRUE

differentiateThreePoint(xvals, yvals, indexOfDifferentiation, indexOfFirstSample, indexOfSecondsample, indexOfThirdSample) ==
  LET x0 == Load(yvals, indexOfFirstSample)
      x1 == Load(yvals, indexOfSecondsample)
      x2 == Load(yvals, indexOfThirdSample)
      t == Sub(Load(xvals, indexOfDifferentiation), Load(xvals, indexOfFirstSample))
      t1 == Sub(Load(xvals, indexOfSecondsample), Load(xvals, indexOfFirstSample))
      t2 == Sub(Load(xvals, indexOfThirdSample), Load(xvals, indexOfFirstSample))
      a == Div(Sub(Sub(x2, x0), Mul(Div(t2, t1), Sub(x1, x0))),
               Sub(Mul(t2, t2), Mul(t1, t2)))
      b == Div(Sub(Sub(x1, x0), Mul(Mul(a, t1), t1)), t1)
  IN Add(Mul(Mul(Num(2), a), t), b)

\* The interior loop begun one knot early.
InteriorStartOffByOne == 2 - 1
\* The first index of the interior loop: for (var i = 2; ...).
InteriorStart == 2

\* One round of the interior loop, on st = [fd, log]: the derivative at
\* knot i and the accesses made to compute it.
InteriorStep(xvals, differences, weights, i, st) ==
  LET wP == Load(weights, i + 1)
      wM == Load(weights, i - 1)
      reads == <<Access("read", "weights", i + 1, wP),
                 Access("read", "weights", i - 1, wM),
                 Access("read", "differences", i - 1, Load(differences, i - 1)),
                 Access("read", "differences", i, Load(differences, i))>>
      flat == LtEpsilon(Abs(wP)) /\ LtEpsilon(Abs(wM))
      xv == Load(xvals, i)
      xvP == Load(xvals, i + 1)
      xvM == Load(xvals, i - 1)
      divisor == IF flat THEN Sub(xvP, xvM) ELSE Add(wP, wM)
      dividend ==
        IF flat
        THEN Add(Mul(Sub(xvP, xv), Load(differences, i - 1)),
                 Mul(Sub(xv, xvM), Load(differences, i)))
        ELSE Add(Mul(wP, Load(differences, i - 1)),
                 Mul(wM, Load(differences, i)))
      value == Div(dividend, divisor)
  IN [fd |-> Store(st.fd, i, value),
      log |-> st.log \o reads
              \o <<Access("divide", IF flat THEN "blend" ELSE "akima", i, divisor),
                   Access("write", "firstDerivatives", i, value)>>]

\* for (i = InteriorStart; i < firstDerivatives.length - 2; i++)
RECURSIVE interiorLoop(_, _, _, _, _)
interiorLoop(xvals, differences, weights, i0, st0) ==
  CHOOSE r \in
    {IF i < ALen(st.fd) - 2
     THEN interiorLoop(xvals, differences, weights, i + 1,
                       InteriorStep(xvals, differences, weights, i, st))
     ELSE st
     : i \in {i0}, st \in {st0}} : TRUE

\* firstDerivatives[i] = differentiateThreePoint(xvals, yvals, i, a, b, c)
BoundaryStep(xvals, yvals, i, a, b, c, st0) ==
  CHOOSE r \in
    {[fd |-> Store(st.fd, i, value),
      log |-> Append(st.log, Access("write", "firstDerivatives", i, value))]
     : st \in {st0},
       value \in {differentiateThreePoint(xvals, yvals, i, a, b, c)}} : TRUE

\* The derivative estimator of interpolate: the first derivative at every
\* knot and the accesses made on the way.
firstDerivativesOf(xvals, yvals) ==
  LET n == ALen(xvals)
      Interior(differences) ==
        CHOOSE r \in
          {interiorLoop(xvals, differences, weights, InteriorStart,
                        [fd |-> NewArray(n), log |-> <<>>])
           : weights \in {weightsOf(differences)}} : TRUE
      s0 == CHOOSE r \in {Interior(differences)
                          : differences \in {differencesOf(xvals, yvals)}} : TRUE
      s1 == BoundaryStep(xvals, yvals, 0, 0, 1, 2, s0)
      s2 == BoundaryStep(xvals, yvals, 1, 0, 1, 2, s1)
      s3 == BoundaryStep(xvals, yvals, n - 2, n - 3, n - 2, n - 1, s2)
  IN BoundaryStep(xvals, yvals, n - 1, n - 3, n - 2, n - 1, s3)

\* The cubic coefficient divided by w where w * w is due.
HermiteCoefficientsCubeByW(xvals, yvals, firstDerivatives, i) ==
  LET w == Sub(Load(xvals, i + 1), Load(xvals, i))
      yv == Load(yvals, i)
      yvP == Load(yvals, i + 1)
      fd == Load(firstDerivatives, i)
      fdP == Load(firstDerivatives, i + 1)
  IN <<yv,
       Load(firstDerivatives, i),
       Div(Sub(Sub(Div(Mul(Num(3), Sub(yvP, yv)), w), Mul(Num(2), fd)), fdP), w),
       Div(Add(Add(Div(Mul(Num(2), Sub(yv, yvP)), w), fd), fdP), w)>>

\* The quadratic coefficient with fd where 2 * fd is due.
HermiteCoefficientsSingleSlope(xvals, yvals, firstDerivatives, i) ==
  LET w == Sub(Load(xvals, i + 1), Load(xvals, i))
      w2 == Mul(w, w)
      yv == Load(yvals, i)
      yvP == Load(yvals, i + 1)
      fd == Load(firstDerivatives, i)
      fdP == Load(firstDerivatives, i + 1)
  IN <<yv,
       Load(firstDerivatives, i),
       Div(Sub(Sub(Div(Mul(Num(3), Sub(yvP, yv)), w), fd), fdP), w),
       Div(Add(Add(Div(Mul(Num(2), Sub(yv, yvP)), w), fd), fdP), w2)>>

\* The four coefficients of segment i, in ascending order.
HermiteCoefficients(xvals, yvals, firstDerivatives, i) ==
  LET w == Sub(Load(xvals, i + 1), Load(xvals, i))
      w2 == Mul(w, w)
      yv == Load(yvals, i)
      yvP == Load(yvals, i + 1)
      fd == Load(firstDerivatives, i)
      fdP == Load(firstDerivatives, i + 1)
  IN <<yv,
       Load(firstDerivatives, i),
       Div(Sub(Sub(Div(Mul(Num(3), Sub(yvP, yv)), w), Mul(Num(2), fd)), fdP), w),
       Div(Add(Add(Div(Mul(Num(2), Sub(yv, yvP)), w), fd), fdP), w2)>>

\* The scratch array itself stored as the entry.
shareCoefficients(h, r) == alias(h, r)
\* allCoefficients[i] = coefficients.slice(0)
copyCoefficients(h, r) == slice(h, r)

\* One round of the loop of interpolateHermiteSorted, on
\* st = [heap, all]: the scratch array at reference coefficients is
\* overwritten and a copy of it stored as entry i.
HermiteStep(xvals, yvals, firstDerivatives, coefficients, i, st) ==
  LET Assigned(c) ==
        Store(Store(Store(Store(st.heap[coefficients], 0, c[1]), 1, c[2]),
                    2, c[3]), 3, c[4])
      scratch == CHOOSE r \in
                   {Assigned(c)
                    : c \in {HermiteCoefficients(xvals, yvals,
                                                 firstDerivatives, i)}} : TRUE
  IN CHOOSE r \in
       {[heap |-> copy.heap, all |-> [st.all EXCEPT ![i] = copy.ref]]
        : copy \in {copyCoefficients([st.heap EXCEPT ![coefficients] = scratch],
                                     coefficients)}} : TRUE

RECURSIVE hermiteLoop(_, _, _, _, _, _)
hermiteLoop(xvals, yvals, firstDerivatives, coefficients, i0, st0) ==
  CHOOSE r \in
    {IF i < ALen(st.all)
     THEN hermiteLoop(xvals, yvals, firstDerivatives, coefficients, i + 1,
                      HermiteStep(xvals, yvals, firstDerivatives, coefficients,
                                  i, st))
     ELSE st
     : i \in {i0}, st \in {st0}} : TRUE

\* The table is an array of references; 0 is a slot not assigned yet.
interpolateHermiteSorted(h, xvals, yvals, firstDerivatives0) ==
  CHOOSE r \in
    {IF ALen(xvals) # ALen(yvals) \/ ALen(xvals) # ALen(firstDerivatives)
     THEN [thrown |-> "DimensionMismatchException", heap |-> h, ret |-> <<>>]
     ELSE IF ALen(xvals) < 2
     THEN [thrown |-> "NumberIsTooSmallException", heap |-> h, ret |-> <<>>]
     ELSE LET size == ALen(xvals) - 1
              coefficients == Len(h) + 1
          IN CHOOSE q \in
               {[thrown |-> "none", heap |-> st.heap, ret |-> st.all]
                : st \in {hermiteLoop(xvals, yvals, firstDerivatives,
                                      coefficients, 0,
                                      [heap |-> Append(h, <<>>),
                                       all |-> [i \in 0 .. size - 1 |-> 0]])}}
               : TRUE
     : firstDerivatives \in {firstDerivatives0}} : TRUE

\* The guards with the minimum size tested before the sizes are compared.
argumentErrorSizeFirst(h, xr, yr) ==
  IF xr = 0 \/ yr = 0 THEN "NullArgumentException"
  ELSE IF ALen(h[xr]) < MINIMUM_NUMBER_POINTS THEN "NumberIsTooSmallException"
  ELSE IF ALen(h[xr]) # ALen(h[yr]) THEN "DimensionMismatchException"
  ELSE "none"

\* The guards at the head of interpolate, in the order of the source: the
\* exception thrown, or "none".
argumentError(h, xr, yr) ==
  IF xr = 0 \/ yr = 0 THEN "NullArgumentException"
  ELSE IF ALen(h[xr]) # ALen(h[yr]) THEN "DimensionMismatchException"
  ELSE IF ALen(h[xr]) < MINIMUM_NUMBER_POINTS THEN "NumberIsTooSmallException"
  ELSE "none"

\* interpolate on the arrays at references xr and yr (0: null); log is the
\* estimator's record of accesses.  checkOrder is called with the array
\* alone, and what it returns is dropped.
interpolate(h, xr, yr) ==
  IF argumentError(h, xr, yr) # "none"
  THEN [thrown |-> argumentError(h, xr, yr), heap |-> h, ret |-> <<>>, log |-> <<>>]
  ELSE LET order == checkOrder(h[xr], DirUndefined, FALSE, FALSE)
       IN IF order.thrown # "none"
          THEN [thrown |-> order.thrown, heap |-> h, ret |-> <<>>, log |-> <<>>]
          ELSE LET Table(est) ==
                     CHOOSE r \in
                       {[thrown |-> tab.thrown, heap |-> tab.heap,
                         ret |-> tab.ret, log |-> est.log]
                        : tab \in {interpolateHermiteSorted(h, h[xr], h[yr],
                                                            est.fd)}} : TRUE
               IN CHOOSE r \in
                    {Table(est) : est \in {firstDerivativesOf(h[xr], h[yr])}}
                    : TRUE

----------------------------------------------------------------------------
(* SplineInterpolatorAkima: evaluation *)

RECURSIVE hornerLoop(_, _, _, _)
hornerLoop(c, x, i0, v0) ==
  CHOOSE r \in
    {IF i >= 0 THEN hornerLoop(c, x, i - 1, Add(Mul(x, v), Load(c, i))) ELSE v
     : i \in {i0}, v \in {v0}} : TRUE

evaluatePolynomial(c, x) ==
  LET n == ALen(c)
  IN IF n = 0 THEN Num(0) ELSE hornerLoop(c, x, n - 2, Load(c, n - 1))

Max(a, b) == IF a > b THEN a ELSE b
Min(a, b) == IF a < b THEN a ELSE b

\* The segment without the clamp to 0 .. nSegments - 1.
segmentIndexUnclamped(nSegments, searched) ==
  IF searched < 0 THEN -searched - 2 ELSE searched

\* The segment right of the insertion point instead of left of it.
segmentIndexRight(nSegments, searched) ==
  LET i == IF searched < 0 THEN -searched - 1 ELSE searched
  IN Max(0, Min(i, nSegments - 1))

\* The segment evaluatePolynomialSegment picks, from what binarySearch
\* returned.
segmentIndex(nSegments, searched) ==
  LET i == IF searched < 0 THEN -searched - 2 ELSE searched
  IN Max(0, Min(i, nSegments - 1))

Raised == [threw |-> TRUE, value |-> NaN]

\* The fitted function on heap h: knots at reference xr, table coeffs.
\* It raises when binarySearch does, and when segmentCoeffs[i] is no
\* array (the read of c.length is a TypeError).
evaluatePolynomialSegment(h, xr, coeffs, x) ==
  LET At(i) ==
        IF i \notin DOMAIN coeffs \/ coeffs[i] = 0 THEN Raised
        ELSE [threw |-> FALSE,
              value |-> evaluatePolynomial(h[coeffs[i]], Sub(x, Load(h[xr], i)))]
  IN CHOOSE r \in
       {IF found.threw THEN Raised
        ELSE CHOOSE q \in {At(i) : i \in {segmentIndex(ALen(coeffs), found.ret)}}
               : TRUE
        : found \in {binarySearch(h[xr], x)}} : TRUE

\* The caller's array itself kept as the knots.
shareXVals(h, r) == alias(h, r)
\* xValsCopy = xVals.slice(0)
cloneXVals(h, r) == slice(h, r)

----------------------------------------------------------------------------
(* The caller's arguments *)

\* The longest array a caller passes.
MaxLen == 6
\* The caller's arrays are changed at most this often after the fit.
MaxMutations == 1

\* Knots are one unit apart but for at most one gap: a wider one, a
\* duplicate (0) or a step back (-1).
OtherGaps == {2, 0, -1}
YValues == {Num(0), Num(1)}

RECURSIVE SumTo(_, _)
SumTo(g, i) == IF i = 0 THEN 0 ELSE g[i] + SumTo(g, i - 1)

\* The knots 0, g[1], g[1] + g[2], ...
KnotsOf(g, n) == [i \in 0 .. n - 1 |-> Num(SumTo(g, i))]

UnitGaps(n) == [i \in 1 .. n - 1 |-> 1]

\* Knot sequences of length n.
XArrays(n) ==
  {KnotsOf(UnitGaps(n), n)}
  \cup {KnotsOf([UnitGaps(n) EXCEPT ![k[1]] = k[2]], n) :
          k \in (1 .. n - 1) \X OtherGaps}

YArrays(n) == [0 .. n - 1 -> YValues]
Zeros(n) == [i \in 0 .. n - 1 |-> Num(0)]

StrictlyIncreasing(a) ==
  \A i \in DOMAIN a : i + 1 \in DOMAIN a => Lt(a[i], a[i + 1])

\* The queries put to a fitted function with knots xv: every knot, the
\* point half a unit after every knot, a point below the first knot, and
\* the non-finite numbers.
Queries(xv) ==
  {xv[i] : i \in DOMAIN xv}
  \cup {Add(xv[i], <<1, 2>>) : i \in DOMAIN xv}
  \cup {Sub(xv[0], Num(1)), NaN, PInf, NInf}

----------------------------------------------------------------------------
(* The program *)

NoResult == [threw |-> FALSE, value |-> Undefined]

\* A caller holding arrays x and y (reference 0: null) and no fitted
\* function yet.
Start(xa, ya, xr, yr) ==
  /\ heap = <<xa, ya>>
  /\ xVals = xr
  /\ yVals = yr
  /\ pc = "start"
  /\ error = "none"
  /\ xValsCopy = 0
  /\ segmentCoeffs = <<>>
  /\ steps = <<>>
  /\ query = Undefined
  /\ result = NoResult
  /\ lastOp = "none"
  /\ mutations = 0

Init ==
  \/ \E n \in 0 .. MaxLen : \E xa \in XArrays(n), ya \in YArrays(n) :
       Start(xa, ya, 1, 2)
  \/ \E n \in 0 .. MaxLen, m \in 0 .. MaxLen : \E xa \in XArrays(n) :
       n # m /\ Start(xa, Zeros(m), 1, 2)
  \/ \E xr \in {0, 1}, yr \in {0, 2} :
       (xr = 0 \/ yr = 0) /\ Start(Zeros(MINIMUM_NUMBER_POINTS),
                                   Zeros(MINIMUM_NUMBER_POINTS), xr, yr)

\* createInterpolator(xVals, yVals): the fit, then the copy of the knots.
\* A throw of interpolate leaves no fitted function.
CreateInterpolator ==
  /\ pc = "start"
  /\ \E fit \in {interpolate(heap, xVals, yVals)} :
       IF fit.thrown # "none"
       THEN /\ pc' = "failed"
            /\ error' = fit.thrown
            /\ UNCHANGED <<heap, xValsCopy, segmentCoeffs, steps>>
       ELSE \E copy \in {cloneXVals(fit.heap, xVals)} :
              /\ pc' = "fitted"
              /\ heap' = copy.heap
              /\ xValsCopy' = copy.ref
              /\ segmentCoeffs' = fit.ret
              /\ steps' = fit.log
              /\ UNCHANGED error
  /\ lastOp' = "createInterpolator"
  /\ UNCHANGED <<xVals, yVals, query, result, mutations>>

\* f(x), the function createInterpolator returned.
Evaluate ==
  /\ pc = "fitted"
  /\ \E q \in Queries(heap[xValsCopy]) :
       /\ query' = q
       /\ result' = evaluatePolynomialSegment(heap, xValsCopy, segmentCoeffs, q)
  /\ lastOp' = "evaluate"
  /\ UNCHANGED <<heap, xVals, yVals, pc, error, xValsCopy, segmentCoeffs,
                 steps, mutations>>

\* The caller writes to the array it passed as xVals, after the fit.
MutateX ==
  /\ pc = "fitted"
  /\ mutations < MaxMutations
  /\ \E i \in DOMAIN heap[xVals] :
       heap' = [heap EXCEPT ![xVals][i] = Add(@, Num(1))]
  /\ mutations' = mutations + 1
  /\ lastOp' = "mutateX"
  /\ UNCHANGED <<xVals, yVals, pc, error, xValsCopy, segmentCoeffs, steps,
                 query, result>>

\* The caller writes to the array it passed as yVals, after the fit.
MutateY ==
  /\ pc = "fitted"
  /\ mutations < MaxMutations
  /\ \E i \in DOMAIN heap[yVals] :
       heap' = [heap EXCEPT ![yVals][i] = Add(@, Num(1))]
  /\ mutations' = mutations + 1
  /\ lastOp' = "mutateY"
  /\ UNCHANGED <<xVals, yVals, pc, error, xValsCopy, segmentCoeffs, steps,
                 query, result>>

Next == CreateInterpolator \/ Evaluate

\* The library alone: one fit, then calls of the fitted function.
Spec == Init /\ [][Next]_vars

Alternating(n) == [i \in 0 .. n - 1 |-> Num(i % 2)]

\* Ordered knots: one unit apart, and with a wider second gap.
CallerKnots(n) ==
  {KnotsOf(UnitGaps(n), n), KnotsOf([UnitGaps(n) EXCEPT ![2] = 2], n)}

\* A caller that passes ordered knots and keeps writing to its arrays.
InitCaller ==
  \E n \in MINIMUM_NUMBER_POINTS .. MaxLen : \E xa \in CallerKnots(n) :
    Start(xa, Alternating(n), 1, 2)

NextCaller == CreateInterpolator \/ Evaluate \/ MutateX \/ MutateY

SpecCaller == InitCaller /\ [][NextCaller]_vars

----------------------------------------------------------------------------
(* What the claims speak of *)

ArgX == heap[xVals]
ArgY == heap[yVals]
Knots == heap[xValsCopy]
NonNull == xVals # 0 /\ yVals # 0
SameLength == ALen(ArgX) = ALen(ArgY)

\* n >= 5 points, strictly increasing x.
ValidInput ==
  /\ NonNull
  /\ SameLength
  /\ ALen(ArgX) >= MINIMUM_NUMBER_POINTS
  /\ StrictlyIncreasing(ArgX)

\* The places in steps where firstDerivatives[i] is assigned.
Writes(i) == {k \in 1 .. Len(steps) : steps[k].k = "write" /\ steps[k].i = i}
\* The estimated derivative at knot i: what was assigned last.
fdAt(i) == steps[CHOOSE k \in Writes(i) : \A j \in Writes(i) : j <= k].v
Estimated == [i \in DOMAIN Knots |-> fdAt(i)]
Divides == {k \in 1 .. Len(steps) : steps[k].k = "divide"}
ReadsOf(a) == {steps[k].i : k \in {j \in 1 .. Len(steps) :
                                     steps[j].k = "read" /\ steps[j].a = a}}

\* Segment i of the table.
Segment(i) == heap[segmentCoeffs[i]]
\* The derivative of the cubic c at offset t.
DerivativeAt(c, t) ==
  Add(c[1], Add(Mul(Mul(Num(2), c[2]), t), Mul(Mul(Num(3), c[3]), Mul(t, t))))

\* The segment the specification names for query q over knots xv.
SegmentOf(xv, q) ==
  LET n == ALen(xv)
  IN IF Lt(q, xv[0]) THEN 0
     ELSE IF Ge(q, xv[n - 1]) THEN n - 2
     ELSE CHOOSE k \in 0 .. n - 2 : Le(xv[k], q) /\ Lt(q, xv[k + 1])

----------------------------------------------------------------------------
(* Claims *)

\* C1: for non-null x and y of equal length >= 5, createInterpolator fails
\* with the not-strictly-increasing error whenever some adjacent pair has
\* x[i+1] <= x[i], and returns no fitted function.
C1_NonIncreasingRejected ==
  (/\ pc # "start"
   /\ NonNull
   /\ SameLength
   /\ ALen(ArgX) >= MINIMUM_NUMBER_POINTS
   /\ ~StrictlyIncreasing(ArgX))
  => (pc = "failed" /\ error = "NonMonotonicSequenceException")

\* C2 as stated: a call of the fitted function never raises, whatever
\* number the query is.
C2_EvaluateNeverRaises == lastOp = "evaluate" => ~result.threw

\* C2, amended: over knots none of which is NaN, a call of the fitted
\* function raises exactly when the query is NaN, and otherwise returns a
\* number; a fit that succeeded reports no error.
C2_EvaluateRaisesOnlyOnNaN ==
  /\ pc = "fitted" => error = "none"
  /\ (lastOp = "evaluate" /\ \A i \in DOMAIN Knots : ~IsNaN(Knots[i]))
     => /\ result.threw <=> IsNaN(query)
        /\ ~result.threw => result.value[2] >= 0

C2_Witness ==
  /\ lastOp = "evaluate"
  /\ Lt(query, Knots[0])
  /\ IsFinite(query)
  /\ ~result.threw
  /\ IsFinite(result.value)

\* C3: for non-null inputs, createInterpolator fails with the size-mismatch
\* error whenever the lengths differ, with the too-few-points error
\* whenever they are equal and below 5, and returns a fitted function for
\* 5 points with strictly increasing x.
C3_SizeGuards ==
  (pc # "start" /\ NonNull)
  => /\ ~SameLength
        => (pc = "failed" /\ error = "DimensionMismatchException")
     /\ (SameLength /\ ALen(ArgX) < MINIMUM_NUMBER_POINTS)
        => (pc = "failed" /\ error = "NumberIsTooSmallException")
     /\ (SameLength /\ ALen(ArgX) = MINIMUM_NUMBER_POINTS
         /\ StrictlyIncreasing(ArgX))
        => (pc = "fitted" /\ error = "none" /\ xValsCopy # 0
            /\ ALen(segmentCoeffs) = MINIMUM_NUMBER_POINTS - 1)

C3_Witness ==
  /\ pc = "failed"
  /\ NonNull
  /\ ALen(ArgX) # ALen(ArgY)
  /\ ALen(ArgX) < MINIMUM_NUMBER_POINTS
  /\ ALen(ArgY) < MINIMUM_NUMBER_POINTS
  /\ ALen(ArgY) > 0

\* C4: once fitted, a write of the caller to its x array or its y array
\* changes the value of the fitted function at no query (nor does any
\* other step).
C4_MutationUnobserved ==
  [][pc = "fitted"
     => \/ UNCHANGED <<heap, xValsCopy, segmentCoeffs>>
        \/ \A q \in Queries(Knots) :
             evaluatePolynomialSegment(heap', xValsCopy', segmentCoeffs', q)
             = evaluatePolynomialSegment(heap, xValsCopy, segmentCoeffs, q)]_vars

C4_Witness ==
  /\ lastOp = "evaluate"
  /\ mutations > 0
  /\ ArgX # Knots
  /\ ~result.threw

\* C5: for valid input, the fitted function at knot x[i] is y[i], for every
\* i in 0..n-1; the last knot is evaluated on segment n-2 at offset
\* x[n-1] - x[n-2].
C5_KnotsReproduced ==
  (lastOp = "evaluate" /\ ValidInput)
  => LET n == ALen(ArgX)
     IN /\ \A i \in DOMAIN ArgX :
             query = ArgX[i] => result = [threw |-> FALSE, value |-> ArgY[i]]
        /\ query = ArgX[n - 1]
           => /\ segmentIndex(n - 1, binarySearch(Knots, query).ret) = n - 2
              /\ result.value
                 = evaluatePolynomial(Segment(n - 2),
                                      Sub(ArgX[n - 1], ArgX[n - 2]))

C5_Witness ==
  /\ lastOp = "evaluate"
  /\ ValidInput
  /\ query = ArgX[ALen(ArgX) - 1]
  /\ Sub(ArgX[ALen(ArgX) - 1], ArgX[ALen(ArgX) - 2]) = Num(2)
  /\ result.value = Num(1)

\* C6: over strictly increasing knots, a query q that is not NaN is
\* evaluated on segment 0 when q < x[0], on segment n-2 when q >= x[n-1],
\* otherwise on the one segment k with x[k] <= q < x[k+1], at offset
\* q - x[k].
C6_SegmentChosen ==
  (lastOp = "evaluate" /\ StrictlyIncreasing(Knots) /\ ~IsNaN(query))
  => LET n == ALen(Knots)
         k == SegmentOf(Knots, query)
     IN /\ (Ge(query, Knots[0]) /\ Lt(query, Knots[n - 1]))
           => Cardinality({j \in 0 .. n - 2 :
                             Le(Knots[j], query) /\ Lt(query, Knots[j + 1])}) = 1
        /\ result = [threw |-> FALSE,
                     value |-> evaluatePolynomial(Segment(k),
                                                  Sub(query, Knots[k]))]

C6_Witness ==
  /\ lastOp = "evaluate"
  /\ StrictlyIncreasing(Knots)
  /\ Gt(query, Knots[2])
  /\ Lt(query, Knots[3])
  /\ IsFinite(result.value)
  /\ result.value[2] > 1

\* C7: for valid input, at every interior knot i in 1..n-2 the cubics of
\* segments i-1 and i both take the value y[i] and both have the estimated
\* derivative of knot i as their first derivative.
C7_C1Continuity ==
  (pc = "fitted" /\ ValidInput)
  => \A i \in 1 .. ALen(ArgX) - 2 :
       LET w == Sub(ArgX[i], ArgX[i - 1])
       IN /\ evaluatePolynomial(Segment(i - 1), w) = ArgY[i]
          /\ evaluatePolynomial(Segment(i), Num(0)) = ArgY[i]
          /\ DerivativeAt(Segment(i - 1), w) = fdAt(i)
          /\ DerivativeAt(Segment(i), Num(0)) = fdAt(i)

C7_Witness ==
  /\ pc = "fitted"
  /\ ValidInput
  /\ Sub(ArgX[2], ArgX[1]) = Num(2)
  /\ fdAt(2)[2] > 1
  /\ Segment(1)[3] # Num(0)

\* C8: the table has n-1 entries, each a 4-element array in storage of its
\* own that holds the coefficients computed for its segment, and the knot
\* copy is in storage of its own; calls of the fitted function leave all
\* of them as they are.
C8_TableOwned ==
  pc = "fitted"
  => /\ ALen(segmentCoeffs) = ALen(ArgX) - 1
     /\ DOMAIN segmentCoeffs = 0 .. ALen(ArgX) - 2
     /\ \A i \in DOMAIN segmentCoeffs :
          /\ segmentCoeffs[i] \in 1 .. Len(heap)
          /\ segmentCoeffs[i] \notin {xVals, yVals, xValsCopy}
          /\ DOMAIN Segment(i) = 0 .. 3
          /\ LET c == HermiteCoefficients(ArgX, ArgY, Estimated, i)
             IN \A j \in 0 .. 3 : Segment(i)[j] = c[j + 1]
          /\ \A j \in DOMAIN segmentCoeffs :
               j # i => segmentCoeffs[j] # segmentCoeffs[i]
     /\ xValsCopy \notin {xVals, yVals}
     /\ Knots = ArgX

C8_Witness ==
  /\ lastOp = "evaluate"
  /\ pc = "fitted"
  /\ \A i \in 1 .. ALen(segmentCoeffs) - 1 : Segment(i) # Segment(i - 1)

\* C9: the estimator assigns each of firstDerivatives[0..n-1] exactly once:
\* 2..n-3 in the interior loop, and 0, 1, n-2, n-1 by three-point
\* differentiation on knots (0,1,2) and (n-3,n-2,n-1); it reads weights
\* only at 1..n-2, never an unassigned one, and differences only at
\* 0..n-2.
C9_EstimatorIndices ==
  pc = "fitted"
  => LET n == ALen(ArgX)
     IN /\ \A i \in 0 .. n - 1 : Cardinality(Writes(i)) = 1
        /\ \A k \in 1 .. Len(steps) :
             steps[k].k = "write" => steps[k].i \in 0 .. n - 1
        /\ {steps[k].i : k \in Divides} = 2 .. n - 3
        /\ \A i \in {0, 1} :
             fdAt(i) = differentiateThreePoint(ArgX, ArgY, i, 0, 1, 2)
        /\ \A i \in {n - 2, n - 1} :
             fdAt(i) = differentiateThreePoint(ArgX, ArgY, i, n - 3, n - 2, n - 1)
        /\ ReadsOf("weights") \subseteq 1 .. n - 2
        /\ \A k \in 1 .. Len(steps) :
             (steps[k].k = "read" /\ steps[k].a = "weights")
             => steps[k].v # Undefined
        /\ ReadsOf("differences") \subseteq 0 .. n - 2
        /\ \A i \in DOMAIN segmentCoeffs : Segment(i)[1] # Undefined

C9_Witness ==
  /\ pc = "fitted"
  /\ ALen(ArgX) > MINIMUM_NUMBER_POINTS
  /\ \E k \in Divides : steps[k].a = "blend"
  /\ \E k \in Divides : steps[k].a = "akima"

\* C10: for input that passed the validation, every division of the
\* interior loop has a non-zero divisor: the weighted average divides by
\* wP + wM # 0, and the linear blend by x[i+1] - x[i-1] > 0.
C10_InteriorDivisors ==
  pc = "fitted"
  => \A k \in Divides :
       /\ steps[k].a = "akima" => ~Eq(steps[k].v, Num(0))
       /\ steps[k].a = "blend" => Gt(steps[k].v, Num(0))

====
